---- MODULE Spec2Model ----
(***************************************************************************)
(* A model of the magenta MIDI call-and-response front end                 *)
(* (magenta/interfaces/midi/magenta_midi.py) and of the Drums RNN          *)
(* sequence generator (magenta/models/drums_rnn/                           *)
(* drums_rnn_sequence_generator.py).                                       *)
(*                                                                         *)
(* Spec    : one run of main(): flag validation, bundle loading, MIDI hub  *)
(*           and interaction construction, the sleep loop, and the         *)
(*           call-and-response engine that runs between start() and stop().*)
(* GenSpec : DrumsRnnSequenceGenerator._generate applied to bounded        *)
(*           requests.                                                     *)
(*                                                                         *)
(* Times are integers counted in ticks; a quantization step is             *)
(* TicksPerStep ticks long, so that seconds_to_steps (truncation) and      *)
(* quantization (rounding) are not the identity.                           *)
(***************************************************************************)
EXTENDS Integers, Sequences, FiniteSets, TLC

VARIABLES
  FLAGS,          \* the parsed command-line flags (a record)
  pc,             \* position of main()
  bundleIdx,      \* index of the bundle file the loading loop is at
  generators,     \* main's list `generators`
  stdout,         \* what was printed, one tag per print statement
  exception,      \* the uncaught exception that ended main, or "none"
  hubOpen,        \* the MidiHub was constructed (ports opened)
  portsReleased,  \* the ports of the hub were released
  start_call_signal, end_call_signal,   \* main's MidiSignal locals
  startCalls, stopCalls,                \* calls of interaction.start()/stop()
  engine,         \* "none", "new", "running", "stopped"
  phase,          \* phase of the call-and-response state machine
  now,            \* performance clock, in ticks
  phrase_start_time,
  notes, open,    \* capture buffer: closed notes, and the open note (or NoNote)
  request,        \* the generator request in flight (or NoRequest)
  response,       \* the response being played back (or NoResponse)
  generatorCalls, \* generator calls made for the current call phrase
  generation,     \* outcome of the generator call of this phrase
  gpc,            \* position of _generate: "request", "done"
  greq,           \* the request handed to _generate
  gres            \* what _generate did

mainVars == <<FLAGS, pc, bundleIdx, generators, stdout, exception, hubOpen,
              portsReleased, start_call_signal, end_call_signal, startCalls,
              stopCalls>>
engineVars == <<engine, phase, now, phrase_start_time, notes, open, request,
                response, generatorCalls, generation>>
genVars == <<gpc, greq, gres>>
vars == <<mainVars, engineVars, genVars>>

----------------------------------------------------------------------------
(* Bounds of the model. *)

MaxFlagLen == 3      \* longest --bundle_files value, in characters
MaxClock == 4        \* the performance clock stops advancing here
MaxCallNotes == 1    \* notes captured in one call phrase

(* Python's None for an integer flag. *)
None == 0 - 1
(* A string flag left unset. *)
NoString == <<"None">>

----------------------------------------------------------------------------
(* Flags: magenta_midi.py lines 32-81. *)

DefinedFlags ==
  {"list_ports", "input_port", "output_port", "phrase_bars",
   "start_call_control_number", "end_call_control_number",
   "temperature_control_number", "qpm", "bundle_files",
   "generator_select_control_number", "log"}

(* FLAGS.<name>: reading a flag that was never defined raises AttributeError. *)
FlagRaises(name) == name \notin DefinedFlags

(* Characters of a --bundle_files value: one-letter file names and the     *)
(* separator.                                                              *)
Chars == {"m", "p", "u", ","}

RECURSIVE StringsUpTo(_)
StringsUpTo(n) ==
  IF n = 0 THEN {<<>>}
  ELSE LET shorter == StringsUpTo(n - 1)
       IN  shorter \cup {Append(s, c) : s \in {t \in shorter : Len(t) = n - 1},
                                        c \in Chars}

(* The control numbers the operator binds, and the MIDI control changes   *)
(* the controller can send.                                                *)
StartNumbers == {20}
EndNumbers == {21}
SelectNumbers == {22}
ControlNumbers == StartNumbers \cup EndNumbers
ControlValues == {0, 127}

FlagValues ==
  [list_ports : BOOLEAN,
   bundle_files : {NoString} \cup (StringsUpTo(MaxFlagLen) \ {<<>>}),
   phrase_bars : {None, 1},
   start_call_control_number : {None} \cup StartNumbers,
   end_call_control_number : {None} \cup EndNumbers,
   generator_select_control_number : {None} \cup SelectNumbers]

(* str.split(','): the pieces between separators; n separators give n + 1  *)
(* pieces, empty ones included.                                            *)
RECURSIVE SplitFrom(_, _, _)
SplitFrom(s, i, cur) ==
  IF i > Len(s) THEN <<cur>>
  ELSE IF s[i] = "," THEN <<cur>> \o SplitFrom(s, i + 1, <<>>)
  ELSE SplitFrom(s, i + 1, Append(cur, s[i]))

Split(s) == SplitFrom(s, 1, <<>>)

CountNoneOfFirst(a, b) == IF a = None THEN 1 ELSE 0

(* tuple.count(None) of (end_call_control_number, phrase_bars). *)
CountNone(a, b) == (IF a = None THEN 1 ELSE 0) + (IF b = None THEN 1 ELSE 0)

(* Line 100: not exactly one of the two boundary flags is set. *)
BoundaryInvalid(F) == CountNone(F.end_call_control_number, F.phrase_bars) # 1

MoreThanTwoBundles(F) == Len(Split(F.bundle_files)) > 2

(* Line 105: more than one bundle file is listed. *)
MultipleBundles(F) == Len(Split(F.bundle_files)) > 1

(* _validate_flags: the tag of the message printed, "ok" when it returns   *)
(* True.                                                                   *)
ValidateFlags(F) ==
  IF F.list_ports THEN "ports_listed"
  ELSE IF F.bundle_files = NoString THEN "bundle_files_must_be_specified"
  ELSE IF BoundaryInvalid(F) THEN "exactly_one_boundary"
  ELSE IF MultipleBundles(F) /\ F.generator_select_control_number = None
    THEN "select_number_required"
  ELSE "ok"

----------------------------------------------------------------------------
(* Bundle loading. *)

(* What read_bundle_file finds under a file name: "m" holds a bundle of a  *)
(* known generator, "u" a bundle whose generator id is not in              *)
(* _GENERATOR_MAP, "p" bytes that do not parse; no other file exists.      *)
ReadBundleFile(file) ==
  IF file = <<"m">> THEN "bundle_known"
  ELSE IF file = <<"u">> THEN "bundle_unknown_id"
  ELSE IF file = <<"p">> THEN "parse_exception"
  ELSE "io_error"

(* _load_generator_from_bundle_file: what the call does.                   *)
(*   kind "generator": a generator is returned;                            *)
(*   kind "none": None is returned after the message was printed;          *)
(*   kind "raise": an exception leaves the function.                       *)
LoadGeneratorFromBundleFile(file) ==
  LET read == ReadBundleFile(file) IN
  IF read = "io_error"
    THEN [kind |-> "raise", exc |-> "IOError", out |-> <<>>]
  ELSE IF read = "parse_exception"
    THEN IF FlagRaises("bundle_file")
           THEN [kind |-> "raise", exc |-> "AttributeError", out |-> <<>>]
           ELSE [kind |-> "none", exc |-> "none",
                 out |-> <<"failed_to_parse_bundle_file">>]
  ELSE IF read = "bundle_unknown_id"
    THEN IF FlagRaises("bundle_file")
           THEN [kind |-> "raise", exc |-> "AttributeError", out |-> <<>>]
           ELSE [kind |-> "none", exc |-> "none",
                 out |-> <<"unrecognized_generator_id">>]
  ELSE [kind |-> "generator", exc |-> "none", out |-> <<"loaded">>]

----------------------------------------------------------------------------
(* DrumsRnnSequenceGenerator._generate:                                    *)
(* drums_rnn_sequence_generator.py lines 44-117.                           *)
(*                                                                         *)
(* A note is [pitch, start_time, end_time] with times in ticks; a section  *)
(* is [start_time, end_time]; a request is [input_sequence, input_sections,*)
(* generate_sections]. A drum track is [start_step, events], its events a  *)
(* sequence of sets of pitches, one per step.                              *)

TicksPerStep == 4    \* resolution of a time: ticks per quantization step
BeatsPerBar == 4     \* the fixed time signature, in quarter notes per bar

Max2(a, b) == IF a >= b THEN a ELSE b
Min2(a, b) == IF a <= b THEN a ELSE b

(* BaseSequenceGenerator.seconds_to_steps: int(seconds * steps per second),*)
(* which truncates.                                                        *)
SecondsToSteps(t) == t \div TicksPerStep

(* Quantization snaps a time to the nearest step (half a step rounds up).  *)
QuantizeToStep(t) == (2 * t + TicksPerStep) \div (2 * TicksPerStep)

(* mm.extract_subsequence: the notes that start inside [start, end), each  *)
(* closed at `end` at the latest.                                          *)
ExtractSubsequence(seq, start, end) ==
  LET Keep(n) == n.start_time >= start /\ n.start_time < end
      Cut(n) == [n EXCEPT !.end_time = Min2(n.end_time, end)]
  IN  [i \in 1..Len(SelectSeq(seq, Keep)) |-> Cut(SelectSeq(seq, Keep)[i])]

(* Lines 59-66: the primer and the step its search starts at. *)
PrimerSequence(req) ==
  IF Len(req.input_sections) > 0
    THEN ExtractSubsequence(req.input_sequence,
                            req.input_sections[1].start_time,
                            req.input_sections[1].end_time)
    ELSE req.input_sequence

InputStartStep(req) ==
  IF Len(req.input_sections) > 0
    THEN SecondsToSteps(req.input_sections[1].start_time)
    ELSE 0

(* Lines 68-69: max(n.end_time for n in primer.notes), 0 without notes. *)
RECURSIVE MaxEndTime(_)
MaxEndTime(seq) ==
  IF seq = <<>> THEN 0
  ELSE IF Len(seq) = 1 THEN seq[1].end_time
  ELSE Max2(seq[1].end_time, MaxEndTime(Tail(seq)))

LastEndTime(primer) == MaxEndTime(primer)

StartsAfterEnd(last_end_time, start_time) == last_end_time > start_time

(* Line 70: the request does not extend the primer. *)
StartsBeforeEnd(last_end_time, start_time) == last_end_time >= start_time

(* Lines 45-75: the SequenceGeneratorException _generate raises, or "none".*)
GenerateRaises(req) ==
  IF Len(req.input_sections) > 1 THEN "at_most_one_input_section"
  ELSE IF Len(req.generate_sections) # 1 THEN "only_one_generate_section"
  ELSE IF StartsBeforeEnd(LastEndTime(PrimerSequence(req)),
                          req.generate_sections[1].start_time)
    THEN "can_only_extend_sequences"
  ELSE "none"

(* mm.quantize_note_sequence: every note snapped to the step grid; a note  *)
(* shorter than one step after snapping is a QuantizationError.            *)
QuantizeNote(n) ==
  [pitch |-> n.pitch,
   start_step |-> QuantizeToStep(n.start_time),
   end_step |-> QuantizeToStep(n.end_time)]

QuantizationFails(primer) ==
  \E i \in 1..Len(primer) :
     QuantizeNote(primer[i]).end_step <= QuantizeNote(primer[i]).start_step

QuantizeNoteSequence(primer) ==
  [i \in 1..Len(primer) |-> QuantizeNote(primer[i])]

(* mm.extract_drum_tracks with min_bars=0 and gap_bars=inf: at most one    *)
(* track, holding every note that starts at or after search_start_step;    *)
(* it starts at the bar of its first onset and ends after its last onset.  *)
ExtractDrumTracks(quantized, search_start_step, steps_per_quarter) ==
  LET steps_per_bar == BeatsPerBar * steps_per_quarter
      used == {i \in 1..Len(quantized) :
                 quantized[i].start_step >= search_start_step}
      onsets == {quantized[i].start_step : i \in used}
  IN  IF used = {} THEN <<>>
      ELSE LET first == CHOOSE x \in onsets : \A y \in onsets : x <= y
               last == CHOOSE x \in onsets : \A y \in onsets : x >= y
               track_start == first - (first % steps_per_bar)
           IN  <<[start_step |-> track_start,
                  events |-> [k \in 1..(last - track_start + 1) |->
                               {quantized[i].pitch : i \in
                                 {j \in used : quantized[j].start_step
                                                 = track_start + k - 1}}]]>>

(* Lines 90-96: the extracted track, or an empty one that starts one step  *)
(* before start_step.                                                      *)
PrimerDrums(extracted, start_step) ==
  IF Len(extracted) > 0 /\ Len(extracted[1].events) > 0
    THEN extracted[1]
    ELSE [start_step |-> Max2(0, start_step - 1), events |-> <<>>]

(* DrumTrack.set_length: pads with silence, or deletes events[steps:].     *)
SetLength(events, steps) ==
  IF steps >= Len(events)
    THEN events \o [k \in 1..(steps - Len(events)) |-> {}]
    ELSE IF steps >= 0 THEN SubSeq(events, 1, steps)
    ELSE SubSeq(events, 1, Max2(0, Len(events) + steps))

(* Line 100: the length the primer track is set to. *)
PrimerLength(start_step, drums_start_step) == start_step - drums_start_step

NumStepsOneMore(end_step, drums_start_step) ==
  end_step - drums_start_step + 1

(* Line 114: the total number of steps the model is asked for. *)
NumSteps(end_step, drums_start_step) == end_step - drums_start_step

(* DrumsRnnModel.generate_drum_track: the primer continued by the model's  *)
(* events `tail` up to num_steps steps in total; a primer that is already  *)
(* that long comes back as it is.                                          *)
GenerateDrumTrack(num_steps, events, tail) ==
  IF num_steps > Len(events)
    THEN events \o SubSeq(tail, 1, num_steps - Len(events))
    ELSE events

(* DrumTrack.to_sequence: total_time is the end of the last note, each     *)
(* note one step long; 0 without notes.                                    *)
TotalTime(start_step, events) ==
  LET hits == {k \in 1..Len(events) : events[k] # {}}
  IN  IF hits = {} THEN 0
      ELSE (start_step + (CHOOSE k \in hits : \A j \in hits : k >= j))
             * TicksPerStep

(* Line 116. *)
AssertHolds(total_time, end_time) == total_time - end_time <= 0

NoResult ==
  [outcome |-> "none", start_step |-> 0, end_step |-> 0,
   extracted_len |-> 0, lost |-> FALSE, drums_start_step |-> 0,
   drums_len |-> 0, num_steps |-> 0, generated_len |-> 0, total_time |-> 0]

(* _generate as a whole: what it raises or returns for `req`, the model    *)
(* continuing the primer with the events `tail`.                           *)
GenerateResult(req, steps_per_quarter, tail) ==
  IF GenerateRaises(req) # "none"
    THEN [NoResult EXCEPT !.outcome = "SequenceGeneratorException"]
  ELSE
  LET primer == PrimerSequence(req)
      section == req.generate_sections[1]
  IN
  IF QuantizationFails(primer)
    THEN [NoResult EXCEPT !.outcome = "QuantizationError"]
  ELSE
  LET extracted == ExtractDrumTracks(QuantizeNoteSequence(primer),
                                     InputStartStep(req), steps_per_quarter)
      start_step == SecondsToSteps(section.start_time)
      end_step == SecondsToSteps(section.end_time)
      drums == PrimerDrums(extracted, start_step)
      events == SetLength(drums.events,
                          PrimerLength(start_step, drums.start_step))
      num_steps == NumSteps(end_step, drums.start_step)
      generated == GenerateDrumTrack(num_steps, events, tail)
      total_time == TotalTime(drums.start_step, generated)
  IN  [outcome |-> IF AssertHolds(total_time, section.end_time)
                     THEN "returned" ELSE "AssertionError",
       start_step |-> start_step,
       end_step |-> end_step,
       extracted_len |-> IF Len(extracted) > 0 THEN Len(extracted[1].events)
                         ELSE 0,
       lost |-> \E k \in 1..Len(drums.events) :
                   drums.events[k] # {} /\ k > Len(events),
       drums_start_step |-> drums.start_step,
       drums_len |-> Len(events),
       num_steps |-> num_steps,
       generated_len |-> Len(generated),
       total_time |-> total_time]

----------------------------------------------------------------------------
(* Values of the engine's and the generator's state. *)

NoSignal == [kind |-> "None", control |-> None, value |-> None]
MidiSignal(c, v) == [kind |-> "MidiSignal", control |-> c, value |-> v]

NoNote == [pitch |-> None, start_time |-> None]
NoRequest ==
  [input_sequence |-> <<>>, input_sections |-> <<>>, generate_sections |-> <<>>]
NoResponse == [start_time |-> None, end_time |-> None]

MainInit ==
  /\ pc = "validate"
  /\ bundleIdx = 1
  /\ generators = <<>>
  /\ stdout = <<>>
  /\ exception = "none"
  /\ hubOpen = FALSE
  /\ portsReleased = FALSE
  /\ start_call_signal = NoSignal
  /\ end_call_signal = NoSignal
  /\ startCalls = 0
  /\ stopCalls = 0

EngineInit ==
  /\ engine = "none"
  /\ phase = "NOT_STARTED"
  /\ now = 0
  /\ phrase_start_time = 0
  /\ notes = <<>>
  /\ open = NoNote
  /\ request = NoRequest
  /\ response = NoResponse
  /\ generatorCalls = 0
  /\ generation = "none"

GenIdleInit ==
  /\ gpc = "idle"
  /\ greq = NoRequest
  /\ gres = NoResult

Init ==
  /\ FLAGS \in FlagValues
  /\ MainInit
  /\ EngineInit
  /\ GenIdleInit

----------------------------------------------------------------------------
(* main(): magenta_midi.py lines 164-210. *)

(* Lines 165-168: validate the flags; return when they are invalid. *)
Validate ==
  /\ pc = "validate"
  /\ LET v == ValidateFlags(FLAGS) IN
       IF v = "ok"
         THEN /\ pc' = "load"
              /\ stdout' = stdout
         ELSE /\ pc' = "returned"
              /\ stdout' = Append(stdout, v)
  /\ UNCHANGED <<FLAGS, bundleIdx, generators, exception, hubOpen,
                 portsReleased, start_call_signal, end_call_signal,
                 startCalls, stopCalls, engineVars, genVars>>

(* Lines 171-175: one iteration of the loading loop, or its end. *)
LoadBundle ==
  /\ pc = "load"
  /\ LET files == Split(FLAGS.bundle_files) IN
       IF bundleIdx > Len(files)
         THEN /\ pc' = "open_hub"
              /\ UNCHANGED <<bundleIdx, generators, stdout, exception>>
         ELSE LET r == LoadGeneratorFromBundleFile(files[bundleIdx]) IN
              /\ stdout' = stdout \o r.out
              /\ bundleIdx' = bundleIdx + 1
              /\ IF r.kind = "raise"
                   THEN /\ pc' = "crashed"
                        /\ exception' = r.exc
                        /\ generators' = generators
                   ELSE /\ generators' = Append(generators, r.kind)
                        /\ exception' = exception
                        /\ pc' = IF r.kind = "none" THEN "returned" ELSE "load"
  /\ UNCHANGED <<FLAGS, hubOpen, portsReleased, start_call_signal,
                 end_call_signal, startCalls, stopCalls, engineVars, genVars>>

(* Lines 178-183: the MidiHub is constructed, which opens the ports. *)
OpenHub ==
  /\ pc = "open_hub"
  /\ hubOpen' = TRUE
  /\ pc' = "construct"
  /\ UNCHANGED <<FLAGS, bundleIdx, generators, stdout, exception,
                 portsReleased, start_call_signal, end_call_signal,
                 startCalls, stopCalls, engineVars, genVars>>

StartCallSignalAlways(F) == MidiSignal(F.start_call_control_number, 0)

(* Lines 185-187. *)
StartCallSignal(F) ==
  IF F.start_call_control_number = None THEN NoSignal
  ELSE MidiSignal(F.start_call_control_number, 0)

(* Lines 188-190. *)
EndCallSignal(F) ==
  IF F.end_call_control_number = None THEN NoSignal
  ELSE MidiSignal(F.end_call_control_number, 0)

(* Lines 185-199: the signals and the interaction object. *)
Construct ==
  /\ pc = "construct"
  /\ start_call_signal' = StartCallSignal(FLAGS)
  /\ end_call_signal' = EndCallSignal(FLAGS)
  /\ engine' = "new"
  /\ pc' = "instructions"
  /\ UNCHANGED <<FLAGS, bundleIdx, generators, stdout, exception, hubOpen,
                 portsReleased, startCalls, stopCalls, phase, now,
                 phrase_start_time, notes, open, request, response,
                 generatorCalls, generation, genVars>>

(* Line 201: _print_instructions (lines 136-161). *)
PrintInstructions ==
  /\ pc = "instructions"
  /\ stdout' = Append(stdout, "instructions")
  /\ pc' = "start"
  /\ UNCHANGED <<FLAGS, bundleIdx, generators, exception, hubOpen,
                 portsReleased, start_call_signal, end_call_signal,
                 startCalls, stopCalls, engineVars, genVars>>

(* Line 203: interaction.start(); the engine enters WAIT_FOR_CALL_SIGNAL. *)
Start ==
  /\ pc = "start"
  /\ startCalls' = startCalls + 1
  /\ engine' = "running"
  /\ phase' = "WAIT_FOR_CALL_SIGNAL"
  /\ pc' = "loop"
  /\ UNCHANGED <<FLAGS, bundleIdx, generators, stdout, exception, hubOpen,
                 portsReleased, start_call_signal, end_call_signal, stopCalls,
                 now, phrase_start_time, notes, open, request, response,
                 generatorCalls, generation, genVars>>

SleepLeavesLoop ==
  /\ pc = "loop"
  /\ pc' = "print_stopped"
  /\ UNCHANGED <<FLAGS, bundleIdx, generators, stdout, exception, hubOpen,
                 portsReleased, start_call_signal, end_call_signal,
                 startCalls, stopCalls, engineVars, genVars>>

(* Lines 205-206: one time.sleep(1) of the loop, which returns to the loop. *)
Sleep ==
  /\ pc = "loop"
  /\ pc' = "loop"
  /\ UNCHANGED <<FLAGS, bundleIdx, generators, stdout, exception, hubOpen,
                 portsReleased, start_call_signal, end_call_signal,
                 startCalls, stopCalls, engineVars, genVars>>

(* A collaborator called outside any try block raises: the MidiHub         *)
(* constructor (line 182), the interaction's constructor (line 191) or     *)
(* interaction.start() (line 203). main has no handler there.              *)
CollaboratorError ==
  /\ pc \in {"open_hub", "construct", "start"}
  /\ pc' = "crashed"
  /\ exception' = "Exception"
  /\ UNCHANGED <<FLAGS, bundleIdx, generators, stdout, hubOpen,
                 portsReleased, start_call_signal, end_call_signal,
                 startCalls, stopCalls, engineVars, genVars>>

(* CTRL-C. Inside the try block (lines 204-207) the handler is entered;    *)
(* anywhere else in main the KeyboardInterrupt is not caught.              *)
KeyboardInterrupt ==
  /\ pc \in {"validate", "load", "open_hub", "construct", "instructions",
             "start", "loop"}
  /\ IF pc = "loop"
       THEN /\ pc' = "except"
            /\ exception' = exception
       ELSE /\ pc' = "crashed"
            /\ exception' = "KeyboardInterrupt"
  /\ UNCHANGED <<FLAGS, bundleIdx, generators, stdout, hubOpen,
                 portsReleased, start_call_signal, end_call_signal,
                 startCalls, stopCalls, engineVars, genVars>>

(* Line 208: interaction.stop(). stop() cancels pending playback, releases *)
(* the ports and halts the metronome.                                      *)
InteractionStop ==
  /\ engine' = "stopped"
  /\ portsReleased' = TRUE
  /\ response' = NoResponse

Stop ==
  /\ pc = "except"
  /\ stopCalls' = stopCalls + 1
  /\ InteractionStop
  /\ pc' = "print_stopped"
  /\ UNCHANGED <<FLAGS, bundleIdx, generators, stdout, exception, hubOpen,
                 start_call_signal, end_call_signal, startCalls, phase, now,
                 phrase_start_time, notes, open, request, generatorCalls,
                 generation, genVars>>

(* Line 210. *)
PrintStopped ==
  /\ pc = "print_stopped"
  /\ stdout' = Append(stdout, "interaction_stopped")
  /\ pc' = "returned"
  /\ UNCHANGED <<FLAGS, bundleIdx, generators, exception, hubOpen,
                 portsReleased, start_call_signal, end_call_signal,
                 startCalls, stopCalls, engineVars, genVars>>

MainNext ==
  \/ Validate
  \/ LoadBundle
  \/ OpenHub
  \/ Construct
  \/ PrintInstructions
  \/ Start
  \/ Sleep
  \/ CollaboratorError
  \/ KeyboardInterrupt
  \/ Stop
  \/ PrintStopped

----------------------------------------------------------------------------
(* The call-and-response engine that runs between interaction.start() and  *)
(* interaction.stop(): the CallAndResponseMidiInteraction main constructs  *)
(* at lines 191-199. Its clock counts metronome beats. Events are          *)
(* processed one at a time.                                                *)

Pitches == {36, 38}

(* A message matches a signal iff all present fields are equal. *)
Matches(signal, control, value) ==
  /\ signal.kind = "MidiSignal"
  /\ (signal.control = None \/ signal.control = control)
  /\ (signal.value = None \/ signal.value = value)

EngineRuns == engine = "running" /\ pc \in {"loop", "except"}

(* With no start-call signal the machine does not stay in                  *)
(* WAIT_FOR_CALL_SIGNAL: the next thing it does is to start the call.      *)
MustStartCall ==
  phase = "WAIT_FOR_CALL_SIGNAL" /\ start_call_signal.kind = "None"

(* snapshot(as_of_time): the captured notes, a still-open note closed at   *)
(* the boundary.                                                           *)
Snapshot(t) ==
  IF open = NoNote THEN notes
  ELSE Append(notes, [pitch |-> open.pitch, start_time |-> open.start_time,
                      end_time |-> t])

(* GeneratorOptions of a call that ended at t: the input range is the      *)
(* call, the generate range follows it and is as long.                     *)
BuildRequest(t) ==
  [input_sequence |-> Snapshot(t),
   input_sections |-> <<[start_time |-> phrase_start_time, end_time |-> t]>>,
   generate_sections |->
     <<[start_time |-> t, end_time |-> t + (t - phrase_start_time)]>>]

(* WAIT_FOR_CALL_SIGNAL -> CALL: buffer cleared, start time stamped. *)
EnterCall ==
  /\ phase' = "CALL"
  /\ notes' = <<>>
  /\ open' = NoNote
  /\ phrase_start_time' = now
  /\ generatorCalls' = 0
  /\ generation' = "none"
  /\ UNCHANGED <<engine, now, request, response>>

(* CALL -> GENERATING at time t: the primer is snapshot, the generator     *)
(* called.                                                                 *)
EndCall(t) ==
  /\ phase' = "GENERATING"
  /\ request' = BuildRequest(t)
  /\ generatorCalls' = generatorCalls + 1
  /\ UNCHANGED <<engine, phrase_start_time, notes, open, response,
                 generation>>

(* Entry of WAIT_FOR_CALL_SIGNAL: buffer cleared, start time stamped. *)
EnterWait ==
  /\ phase' = "WAIT_FOR_CALL_SIGNAL"
  /\ notes' = <<>>
  /\ open' = NoNote
  /\ phrase_start_time' = now
  /\ request' = NoRequest

StartCall ==
  /\ EngineRuns
  /\ MustStartCall
  /\ EnterCall
  /\ UNCHANGED <<mainVars, genVars>>

ControlChange(control, value) ==
  /\ EngineRuns
  /\ ~MustStartCall
  /\ IF phase = "WAIT_FOR_CALL_SIGNAL"
        /\ Matches(start_call_signal, control, value)
       THEN EnterCall
     ELSE IF phase = "CALL" /\ Matches(end_call_signal, control, value)
       THEN EndCall(now) /\ now' = now
     ELSE UNCHANGED <<engine, phase, now, phrase_start_time, notes, open,
                      request, response, generatorCalls, generation>>
  /\ UNCHANGED <<mainVars, genVars>>

(* record(NoteOn): closes the open note at the message time, opens a new   *)
(* one. Notes that arrive outside CALL are dropped.                        *)
NoteOn(pitch) ==
  /\ EngineRuns
  /\ ~MustStartCall
  /\ IF phase = "CALL"
       THEN /\ Len(Snapshot(now)) < MaxCallNotes
            /\ notes' = Snapshot(now)
            /\ open' = [pitch |-> pitch, start_time |-> now]
       ELSE UNCHANGED <<notes, open>>
  /\ UNCHANGED <<engine, phase, now, phrase_start_time, request, response,
                 generatorCalls, generation, mainVars, genVars>>

(* record(NoteOff): closes the matching open note. *)
NoteOff(pitch) ==
  /\ EngineRuns
  /\ ~MustStartCall
  /\ IF phase = "CALL" /\ open # NoNote /\ open.pitch = pitch
       THEN /\ notes' = Snapshot(now)
            /\ open' = NoNote
       ELSE UNCHANGED <<notes, open>>
  /\ UNCHANGED <<engine, phase, now, phrase_start_time, request, response,
                 generatorCalls, generation, mainVars, genVars>>

(* A metronome beat. Under the fixed-bar policy the call ends when         *)
(* phrase_bars bars have elapsed since phrase_start_time.                  *)
Tick ==
  /\ EngineRuns
  /\ ~MustStartCall
  /\ now < MaxClock
  /\ now' = now + 1
  /\ IF /\ phase = "CALL"
        /\ FLAGS.phrase_bars # None
        /\ now' - phrase_start_time >= FLAGS.phrase_bars * BeatsPerBar
       THEN EndCall(now')
       ELSE UNCHANGED <<engine, phase, phrase_start_time, notes, open,
                        request, response, generatorCalls, generation>>
  /\ UNCHANGED <<mainVars, genVars>>

(* The generator call completes. A failed call returns the machine to      *)
(* WAIT_FOR_CALL_SIGNAL; it is not retried.                                *)
GenerationComplete ==
  /\ EngineRuns
  /\ phase = "GENERATING"
  /\ IF GenerateRaises(request) # "none"
       THEN /\ EnterWait
            /\ response' = NoResponse
            /\ generation' = "failed"
       ELSE /\ phase' = "RESPONSE_PLAYBACK"
            /\ response' = request.generate_sections[1]
            /\ request' = NoRequest
            /\ generation' = "done"
            /\ UNCHANGED <<phrase_start_time, notes, open>>
  /\ UNCHANGED <<engine, now, generatorCalls, mainVars, genVars>>

(* Playback completion is signaled. *)
PlaybackComplete ==
  /\ EngineRuns
  /\ phase = "RESPONSE_PLAYBACK"
  /\ EnterWait
  /\ response' = NoResponse
  /\ UNCHANGED <<engine, now, generatorCalls, generation, mainVars, genVars>>

EngineNext ==
  \/ StartCall
  \/ \E c \in ControlNumbers, v \in ControlValues : ControlChange(c, v)
  \/ \E p \in Pitches : NoteOn(p)
  \/ \E p \in Pitches : NoteOff(p)
  \/ Tick
  \/ GenerationComplete
  \/ PlaybackComplete

Next == MainNext \/ EngineNext

Spec == Init /\ [][Next]_vars

----------------------------------------------------------------------------
(* Properties of main() and of the engine, checked under Spec. *)

BothOrNeither ==
  (FLAGS.end_call_control_number = None) = (FLAGS.phrase_bars = None)

Commas(str) == Cardinality({i \in 1..Len(str) : str[i] = ","})

NothingStarted ==
  /\ generators = <<>>
  /\ bundleIdx = 1
  /\ ~hubOpen
  /\ startCalls = 0
  /\ engine = "none"
  /\ pc \in {"validate", "returned", "crashed"}

(* C1: flag validation fails when both or neither of                       *)
(* end_call_control_number and phrase_bars are set, and main then returns  *)
(* without loading a generator, opening a port or starting the             *)
(* interaction; with exactly one of them set (and nothing else wrong) it   *)
(* succeeds.                                                               *)
C1_BoundaryValidation ==
  /\ BothOrNeither => /\ ValidateFlags(FLAGS) # "ok"
                      /\ NothingStarted
                      /\ pc = "returned" => Len(stdout) = 1
  /\ (/\ ~BothOrNeither
      /\ ~FLAGS.list_ports
      /\ FLAGS.bundle_files # NoString
      /\ (Commas(FLAGS.bundle_files) = 0
            \/ FLAGS.generator_select_control_number # None))
       => /\ ValidateFlags(FLAGS) = "ok"
          /\ \A i \in 1..Len(stdout) : stdout[i] # "exactly_one_boundary"

C1_Witness ==
  /\ pc = "returned"
  /\ FLAGS.end_call_control_number # None
  /\ FLAGS.phrase_bars # None
  /\ stdout = <<"exactly_one_boundary">>

(* C2: with more than one bundle listed and no generator-selection control *)
(* number, validation fails and main returns before any bundle is loaded   *)
(* or any port opened; with a single bundle a missing selection number is  *)
(* accepted.                                                               *)
C2_SelectionRequired ==
  /\ (/\ FLAGS.bundle_files # NoString
      /\ Commas(FLAGS.bundle_files) >= 1
      /\ FLAGS.generator_select_control_number = None)
       => /\ ValidateFlags(FLAGS) # "ok"
          /\ NothingStarted
  /\ (/\ FLAGS.bundle_files # NoString
      /\ Commas(FLAGS.bundle_files) = 0
      /\ ~FLAGS.list_ports
      /\ ~BothOrNeither)
       => /\ ValidateFlags(FLAGS) = "ok"
          /\ \A i \in 1..Len(stdout) : stdout[i] # "select_number_required"

C2_Witness ==
  /\ pc = "returned"
  /\ Commas(FLAGS.bundle_files) = 1
  /\ FLAGS.generator_select_control_number = None
  /\ stdout = <<"select_number_required">>

(* The bundle the loading loop tried last. *)
LastTried == Split(FLAGS.bundle_files)[bundleIdx - 1]

(* C3: a bundle that fails to parse, or whose generator id is unknown, is  *)
(* reported with a message, the load returns None, and main returns there  *)
(* without loading later bundles, opening ports or starting.               *)
C3_FailedBundleReported ==
  (/\ bundleIdx > 1
   /\ ReadBundleFile(LastTried) \in {"parse_exception", "bundle_unknown_id"})
    => /\ pc = "returned"
       /\ exception = "none"
       /\ stdout # <<>>
       /\ stdout[Len(stdout)] =
            (IF ReadBundleFile(LastTried) = "parse_exception"
               THEN "failed_to_parse_bundle_file"
               ELSE "unrecognized_generator_id")
       /\ generators[Len(generators)] = "none"
       /\ ~hubOpen
       /\ startCalls = 0

(* C4: once the MidiHub is constructed, its ports are released on every    *)
(* exit path of main.                                                      *)
C4_PortsReleasedOnExit ==
  (pc \in {"returned", "crashed"} /\ hubOpen) => portsReleased

CycleTransitions ==
  {<<"NOT_STARTED", "WAIT_FOR_CALL_SIGNAL">>,
   <<"WAIT_FOR_CALL_SIGNAL", "CALL">>,
   <<"CALL", "GENERATING">>,
   <<"GENERATING", "RESPONSE_PLAYBACK">>,
   <<"RESPONSE_PLAYBACK", "WAIT_FOR_CALL_SIGNAL">>}

(* With no start-call control number, every step of the engine taken in    *)
(* WAIT_FOR_CALL_SIGNAL ends in CALL.                                      *)
LeavesWaitAtOnce ==
  (/\ phase = "WAIT_FOR_CALL_SIGNAL"
   /\ FLAGS.start_call_control_number = None
   /\ engine' = "running"
   /\ engineVars' # engineVars)
    => phase' = "CALL"

(* With a start-call control number, WAIT_FOR_CALL_SIGNAL is left only by  *)
(* the control change of that number with value 0, and that one leaves it. *)
WaitsForSignal ==
  (phase = "WAIT_FOR_CALL_SIGNAL" /\ FLAGS.start_call_control_number # None)
    => /\ phase' # phase
            => ControlChange(FLAGS.start_call_control_number, 0)
       /\ ControlChange(FLAGS.start_call_control_number, 0)
            => phase' = "CALL"

(* C5 as stated: the phases only follow the cycle                          *)
(* WAIT_FOR_CALL_SIGNAL -> CALL -> GENERATING -> RESPONSE_PLAYBACK ->      *)
(* WAIT_FOR_CALL_SIGNAL, the wait ends within one step without a start     *)
(* signal, and lasts until the matching control change with one.           *)
C5_CycleOnly ==
  [][/\ phase' # phase => <<phase, phase'>> \in CycleTransitions
     /\ LeavesWaitAtOnce
     /\ WaitsForSignal]_vars

(* C5 amended: as above, but GENERATING also leads back to                 *)
(* WAIT_FOR_CALL_SIGNAL when the generator call failed.                    *)
C5_CycleOrFailure ==
  [][/\ phase' # phase
          => \/ <<phase, phase'>> \in CycleTransitions
             \/ /\ <<phase, phase'>> = <<"GENERATING", "WAIT_FOR_CALL_SIGNAL">>
                /\ GenerateRaises(request) # "none"
     /\ LeavesWaitAtOnce
     /\ WaitsForSignal]_vars

C5_Witness ==
  /\ phase = "WAIT_FOR_CALL_SIGNAL"
  /\ generation = "done"
  /\ FLAGS.start_call_control_number # None
  /\ now > 0

(* C6: when the generator call fails during GENERATING the machine is back *)
(* in WAIT_FOR_CALL_SIGNAL with the capture buffer cleared, nothing is     *)
(* played, the generator is called once per call phrase, and the engine    *)
(* keeps running. A call that ends while a note is held is such a call.    *)
C6_FailureReturnsToWait ==
  /\ [][(/\ phase = "GENERATING"
         /\ phase' # "GENERATING"
         /\ \/ GenerateRaises(request) # "none"
            \/ /\ open # NoNote
               /\ open.start_time < request.generate_sections[1].start_time)
          => /\ phase' = "WAIT_FOR_CALL_SIGNAL"
             /\ notes' = <<>>
             /\ open' = NoNote
             /\ response' = NoResponse
             /\ generatorCalls' = generatorCalls
             /\ engine' = "running"]_vars
  /\ [](generatorCalls <= 1)
  /\ [](generation = "failed"
          => /\ phase = "WAIT_FOR_CALL_SIGNAL"
             /\ response = NoResponse
             /\ notes = <<>>
             /\ open = NoNote)

C6_Witness ==
  /\ generation = "failed"
  /\ phase = "WAIT_FOR_CALL_SIGNAL"
  /\ engine = "running"
  /\ generatorCalls = 1
  /\ now > 0

(* C7: start() is called only after validation succeeded, every bundle was *)
(* loaded and the hub constructed; the sleep loop is left only by a        *)
(* keyboard interrupt; stop() is called at most once, only after start(),  *)
(* and always before "Interaction stopped." is printed and main returns.   *)
C7_Lifecycle ==
  /\ [](startCalls >= 1
          => /\ startCalls = 1
             /\ ValidateFlags(FLAGS) = "ok"
             /\ Len(generators) = Commas(FLAGS.bundle_files) + 1
             /\ \A i \in 1..Len(generators) : generators[i] = "generator"
             /\ hubOpen)
  /\ [](stopCalls >= 1 => stopCalls = 1 /\ startCalls = 1)
  /\ []((\E i \in 1..Len(stdout) : stdout[i] = "interaction_stopped")
          => stopCalls = 1)
  /\ []((pc = "returned" /\ startCalls = 1)
          => /\ stopCalls = 1
             /\ stdout[Len(stdout)] = "interaction_stopped")
  /\ [][(pc = "loop" /\ pc' # "loop") => KeyboardInterrupt]_vars

C7_Witness ==
  /\ pc = "returned"
  /\ startCalls = 1
  /\ stopCalls = 1
  /\ stdout[Len(stdout)] = "interaction_stopped"

----------------------------------------------------------------------------
(* _generate applied to bounded requests. *)

MaxTick == 10        \* latest note end and latest generate start, in ticks
MaxNotes == 1        \* notes of the input sequence
MaxDur == 4          \* longest note, in ticks
MaxResp == 4         \* longest generate section, in ticks

(* The drum pitches of the notes, and the steps_per_quarter the generator  *)
(* is constructed with (a bar is BeatsPerBar * steps_per_quarter steps).   *)
GenPitches == {36}
StepsPerQuarterValues == {1}

GenNotes ==
  {[pitch |-> p, start_time |-> s, end_time |-> s + d] :
     p \in GenPitches, s \in 0..MaxTick, d \in 1..MaxDur}

(* NoteSequences: notes ordered by start_time, none ending after MaxTick. *)
RECURSIVE NoteSeqs(_)
NoteSeqs(n) ==
  IF n = 0 THEN {<<>>}
  ELSE LET shorter == NoteSeqs(n - 1)
       IN  shorter \cup UNION
           {{Append(q, m) : m \in {x \in GenNotes :
                                     /\ x.end_time <= MaxTick
                                     /\ \A i \in 1..Len(q) :
                                          q[i].start_time <= x.start_time}} :
              q \in {t \in shorter : Len(t) = n - 1}}

Section(a, b) == [start_time |-> a, end_time |-> b]

(* The section lists of a request that generates [g, e): no input section  *)
(* or one that ends at g, and the lists _generate rejects by their length. *)
SectionLists(g, e) ==
  {<<ins, <<Section(g, e)>> >> :
     ins \in {<<>>, <<Section(0, g)>>, <<Section(TicksPerStep, g)>>}}
  \cup {<< <<Section(0, g), Section(0, g)>>, <<Section(g, e)>> >>,
        << <<Section(0, g)>>, <<>> >>,
        << <<Section(0, g)>>, <<Section(g, e), Section(g, e)>> >>}

GenRequests ==
  {[input_sequence |-> q, input_sections |-> sl[1],
    generate_sections |-> sl[2], steps_per_quarter |-> spq] :
     q \in NoteSeqs(MaxNotes),
     sl \in UNION {SectionLists(g, g + r) : g \in 0..MaxTick, r \in 0..MaxResp},
     spq \in StepsPerQuarterValues}

(* What the model may append: silence or a hit, step by step. *)
MaxTail == (MaxResp \div TicksPerStep) + 1
Tails == [1..MaxTail -> {{}, GenPitches}]

GenInit ==
  /\ FLAGS = [list_ports |-> FALSE, bundle_files |-> NoString,
              phrase_bars |-> None, start_call_control_number |-> None,
              end_call_control_number |-> None,
              generator_select_control_number |-> None]
  /\ MainInit
  /\ EngineInit
  /\ gpc = "request"
  /\ greq \in GenRequests
  /\ gres = NoResult

Generate ==
  /\ gpc = "request"
  /\ \E tail \in Tails :
        gres' = GenerateResult(greq, greq.steps_per_quarter, tail)
  /\ gpc' = "done"
  /\ UNCHANGED <<greq, mainVars, engineVars>>

GenNext == Generate

GenSpec == GenInit /\ [][GenNext]_vars

----------------------------------------------------------------------------
(* Properties of _generate, checked under GenSpec. *)

(* The request names one generate section and at most one input section,   *)
(* so that its primer and its generate section exist.                      *)
WellFormed(req) ==
  Len(req.generate_sections) = 1 /\ Len(req.input_sections) <= 1

(* The latest end time among the notes of a sequence, 0 without notes. *)
LatestEnd(seq) ==
  LET ends == {seq[i].end_time : i \in 1..Len(seq)}
  IN  IF ends = {} THEN 0 ELSE CHOOSE x \in ends : \A y \in ends : x >= y

ModelCalled == gres.outcome \in {"returned", "AssertionError"}

OnGrid(req) ==
  /\ \A i \in 1..Len(req.input_sequence) :
        /\ req.input_sequence[i].start_time % TicksPerStep = 0
        /\ req.input_sequence[i].end_time % TicksPerStep = 0
  /\ \A i \in 1..Len(req.input_sections) :
        /\ req.input_sections[i].start_time % TicksPerStep = 0
        /\ req.input_sections[i].end_time % TicksPerStep = 0
  /\ \A i \in 1..Len(req.generate_sections) :
        /\ req.generate_sections[i].start_time % TicksPerStep = 0
        /\ req.generate_sections[i].end_time % TicksPerStep = 0

(* C8: _generate raises SequenceGeneratorException, before quantizing or   *)
(* calling the model, exactly when the latest note end of the primer (0    *)
(* for a primer without notes) is at or after the generate section's       *)
(* start; a primer whose last note ends exactly at the generate start is   *)
(* rejected, and so is an empty primer with generate start 0.              *)
C8_OnlyExtends ==
  (gpc = "done" /\ WellFormed(greq))
    => LET primer == PrimerSequence(greq)
           start == greq.generate_sections[1].start_time
       IN  /\ (gres.outcome = "SequenceGeneratorException")
                <=> (LatestEnd(primer) >= start)
           /\ gres.outcome = "SequenceGeneratorException"
                => gres = [NoResult EXCEPT
                             !.outcome = "SequenceGeneratorException"]
           /\ (primer # <<>> /\ primer[Len(primer)].end_time = start)
                => gres.outcome = "SequenceGeneratorException"
           /\ (primer = <<>> /\ start = 0)
                => gres.outcome = "SequenceGeneratorException"

C8_Witness ==
  /\ gpc = "done"
  /\ WellFormed(greq)
  /\ PrimerSequence(greq) # <<>>
  /\ LatestEnd(PrimerSequence(greq)) = greq.generate_sections[1].start_time
  /\ greq.generate_sections[1].start_time > 0
  /\ gres.outcome = "SequenceGeneratorException"

(* C9: on the step grid, an accepted request makes the model generate      *)
(* end_step - drums.start_step steps in total, the generated track ends at *)
(* end_step, and the returned sequence does not extend past the generate   *)
(* section's end (the assertion of line 116 holds).                        *)
C9_EndsAtSectionEnd ==
  (gpc = "done" /\ ModelCalled /\ OnGrid(greq))
    => /\ gres.end_step * TicksPerStep = greq.generate_sections[1].end_time
       /\ gres.drums_start_step + gres.num_steps = gres.end_step
       /\ gres.drums_start_step + gres.generated_len = gres.end_step
       /\ gres.total_time <= greq.generate_sections[1].end_time
       /\ gres.outcome = "returned"

C9_Witness ==
  /\ gpc = "done"
  /\ OnGrid(greq)
  /\ gres.outcome = "returned"
  /\ greq.input_sequence # <<>>
  /\ gres.generated_len > gres.drums_len
  /\ gres.total_time = greq.generate_sections[1].end_time

(* C10: before the model is called the primer track extends exactly up to  *)
(* the generation start step and loses no primer event: the length it is   *)
(* set to is not negative and not shorter than the extracted track; with   *)
(* no extracted track the primer is one step of silence (none when         *)
(* start_step is 0).                                                       *)
C10_PrimerReachesStart ==
  (gpc = "done" /\ ModelCalled)
    => /\ gres.drums_start_step + gres.drums_len = gres.start_step
       /\ gres.start_step - gres.drums_start_step >= 0
       /\ gres.start_step - gres.drums_start_step >= gres.extracted_len
       /\ ~gres.lost
       /\ gres.extracted_len = 0
            => /\ gres.drums_start_step = Max2(0, gres.start_step - 1)
               /\ gres.drums_len = (IF gres.start_step = 0 THEN 0 ELSE 1)

(* The same on the step grid. *)
C10_OnGrid == (gpc = "done" /\ OnGrid(greq)) => C10_PrimerReachesStart

====
